---- MODULE Spec2Model ----
(***************************************************************************)
(* Model of the plugin host: main.rs (the discovery loop) and plugin.rs    *)
(* (header parser, compilation driver, dynamic library session and the     *)
(* type-directed invoker with its panic boundary).                         *)
(*                                                                         *)
(* Text is a sequence of one-character strings.  An Option<T> is a         *)
(* sequence of length at most one: <<>> is None, <<x>> is Some(x).         *)
(***************************************************************************)
EXTENDS Integers, Sequences, FiniteSets, TLC

VARIABLES
    pc,         \* position of main: loop, loaded, guarded, caught, invoked, done, aborted
    remaining,  \* directory entries read_dir has not yielded yet
    header,     \* Option: first line of the plugin file being loaded
    parsed,     \* Option: outcome of parse_header on that line
    status,     \* Option: exit status of the `roc build` subprocess
    libLoad,    \* whether Library::new was called for the current plugin
    plugin,     \* Option: the Plugin { meta, dylib } in scope
    hook,       \* the process-wide panic hook
    prev_hook,  \* Option: catch_unwind_silent's local prev_hook
    call,       \* Option: the native call made by the current invoke
    result,     \* Option: what panic::catch_unwind returned
    out,        \* lines written for the plugin in scope
    abort,      \* Option: payload of the panic that terminated the host
    recovered,  \* number of "plugin panicked" diagnostics written so far
    fault       \* Option: payload of the panic raised inside the closure

vars == <<pc, remaining, header, parsed, status, libLoad, plugin, hook,
          prev_hook, call, result, out, abort, recovered, fault>>

None == <<>>
Some(x) == <<x>>

(***************************************************************************)
(* Bounds of the model.                                                    *)
(***************************************************************************)
\* directory entries in one run
MaxPlugins == 2
\* declared arguments of a generated well-formed header
MaxArity == 3
\* pieces concatenated into a free-form argument list
MaxPieces == 3

(***************************************************************************)
(* Text.                                                                   *)
(***************************************************************************)
Lower == {"a","b","c","d","e","f","g","h","i","j","k","l","m",
          "n","o","p","q","r","s","t","u","v","w","x","y","z"}
Upper == {"A","B","C","D","E","F","G","H","I","J","K","L","M",
          "N","O","P","Q","R","S","T","U","V","W","X","Y","Z"}
Digit == {"0","1","2","3","4","5","6","7","8","9"}

\* word characters outside ASCII: a letter of Latin-1, a letter that
\* upper-cases to two, and the CJK letter U+540D written by its code point
NonAscii == {"é", "ß", "U+540D"}

\* the regex class \w, which is Unicode-aware in the regex crate
WordChars == Lower \cup Upper \cup Digit \cup {"_"} \cup NonAscii
\* the regex class [\w, ]
ArgChars == WordChars \cup {",", " "}

Marker == <<"#","[","p","l","u","g","i","n","]"," ">>
Colon == <<" ",":"," ">>
Arrow == <<" ","-",">"," ">>
Comma == <<","," ">>

StartsWithAt(s, i, p) ==
    /\ i >= 1
    /\ i + Len(p) - 1 <= Len(s)
    /\ SubSeq(s, i, i + Len(p) - 1) = p

AllIn(s, i, j, S) == \A k \in i..j : s[k] \in S

\* e evaluated once and handed to F
Bind(e, F(_)) == CHOOSE y \in {F(v) : v \in {e}} : TRUE

RECURSIVE Concat(_)
Concat(ss) == IF ss = <<>> THEN <<>> ELSE Head(ss) \o Concat(Tail(ss))

(***************************************************************************)
(* DType and Value.                                                        *)
(***************************************************************************)
DType == {"Str", "U64"}

DType_as_str(t) ==
    IF t = "Str" THEN <<"S","t","r">> ELSE <<"U","6","4">>

Ok(v) == [ok |-> TRUE, value |-> v]
Err(e) == [ok |-> FALSE, err |-> e]

\* mutant: a catch-all arm that yields a type
DType_from_str_default(s) ==
    IF s = <<"U","6","4">> THEN Ok("U64") ELSE Ok("Str")

DType_from_str(s) ==
    IF s = <<"S","t","r">> THEN Ok("Str")
    ELSE IF s = <<"U","6","4">> THEN Ok("U64")
    ELSE Err(s)

(***************************************************************************)
(* Panic payloads.  `ty` is the payload's dynamic type (what downcast      *)
(* tests), `kind` the message template and `detail` its formatted argument.*)
(***************************************************************************)
\* Option::unwrap on None: a constant message
unwrap_none == [ty |-> "&str", kind |-> "Option::unwrap on None", detail |-> <<>>]
\* Result::unwrap on Err(e): the message formats e
unwrap_err(e) == [ty |-> "String", kind |-> "Result::unwrap on Err", detail |-> e]

(***************************************************************************)
(* Header parser.                                                          *)
(***************************************************************************)
\* the ways the regex
\* ^#\[plugin\] (?P<name>\w+) : ((?P<args>[\w, ]+) -> )?(?P<ret>\w+)$
\* matches all of h: n is the length of name and k that of args, 0 when
\* the optional group takes no part
RE_matches(h) ==
    IF ~StartsWithAt(h, 1, Marker) THEN {}
    ELSE {m \in {n \in 1..Len(h) :
                    /\ StartsWithAt(h, Len(Marker) + n + 1, Colon)
                    /\ AllIn(h, Len(Marker) + 1, Len(Marker) + n, WordChars)}
                \X (0..Len(h)) :
            IF m[2] = 0
            THEN /\ Len(Marker) + m[1] + Len(Colon) + 1 <= Len(h)
                 /\ AllIn(h, Len(Marker) + m[1] + Len(Colon) + 1, Len(h), WordChars)
            ELSE /\ Len(Marker) + m[1] + Len(Colon) + m[2] + Len(Arrow) + 1 <= Len(h)
                 /\ StartsWithAt(h, Len(Marker) + m[1] + Len(Colon) + m[2] + 1, Arrow)
                 /\ AllIn(h, Len(Marker) + m[1] + Len(Colon) + 1,
                          Len(Marker) + m[1] + Len(Colon) + m[2], ArgChars)
                 /\ AllIn(h, Len(Marker) + m[1] + Len(Colon) + m[2] + Len(Arrow) + 1,
                          Len(h), WordChars)}

\* the groups name, args (optional) and ret of the match m of h
RE_groups(h, m) ==
    IF m[2] = 0
    THEN [name |-> SubSeq(h, Len(Marker) + 1, Len(Marker) + m[1]),
          args |-> None,
          ret  |-> SubSeq(h, Len(Marker) + m[1] + Len(Colon) + 1, Len(h))]
    ELSE [name |-> SubSeq(h, Len(Marker) + 1, Len(Marker) + m[1]),
          args |-> Some(SubSeq(h, Len(Marker) + m[1] + Len(Colon) + 1,
                               Len(Marker) + m[1] + Len(Colon) + m[2])),
          ret  |-> SubSeq(h, Len(Marker) + m[1] + Len(Colon) + m[2] + Len(Arrow) + 1,
                          Len(h))]

\* RE.captures(header): None, or the groups of the match
RE_captures(h) ==
    Bind(RE_matches(h),
         LAMBDA ms : IF ms = {} THEN None
                     ELSE Some(RE_groups(h, CHOOSE m \in ms : TRUE)))

\* index of the leftmost ", " of s at or after i, 0 when there is none
RECURSIVE find_comma(_, _)
find_comma(s, i) ==
    IF i + Len(Comma) - 1 > Len(s) THEN 0
    ELSE IF s[i] = Comma[1] /\ s[i + 1] = Comma[2] THEN i
    ELSE find_comma(s, i + 1)

\* str::split(", "): the pieces between successive leftmost matches
RECURSIVE split(_)
split(s) ==
    Bind(find_comma(s, 1),
         LAMBDA i : IF i = 0 THEN <<s>>
                    ELSE <<SubSeq(s, 1, i - 1)>>
                         \o split(SubSeq(s, i + Len(Comma), Len(s))))

\* mutant: the separator is "," alone, so pieces keep their leading space
RECURSIVE split_at_commas(_)
split_at_commas(s) ==
    Bind({i \in 1..Len(s) : s[i] = ","},
         LAMBDA hits :
            IF hits = {} THEN <<s>>
            ELSE Bind(CHOOSE i \in hits : \A j \in hits : i <= j,
                      LAMBDA i : <<SubSeq(s, 1, i - 1)>>
                                 \o split_at_commas(SubSeq(s, i + 1, Len(s)))))

split_terminator_commas(s) ==
    Bind(split_at_commas(s),
         LAMBDA p : IF p[Len(p)] = <<>> THEN SubSeq(p, 1, Len(p) - 1) ELSE p)

\* str::split_terminator(", "): split, without a trailing empty piece
split_terminator(s) ==
    Bind(split(s),
         LAMBDA p : IF p[Len(p)] = <<>> THEN SubSeq(p, 1, Len(p) - 1) ELSE p)

\* .map(|x| x.parse().unwrap()).collect(): the types of the tokens, or the
\* payload of the first unwrap that panics
RECURSIVE collect_types(_)
collect_types(toks) ==
    IF toks = <<>> THEN Ok(<<>>)
    ELSE Bind(DType_from_str(Head(toks)),
              LAMBDA t : IF ~t.ok THEN Err(unwrap_err(t.err))
                         ELSE Bind(collect_types(Tail(toks)),
                                   LAMBDA rest : IF ~rest.ok THEN rest
                                                 ELSE Ok(<<t.value>> \o rest.value)))

\* parse_header past RE.captures(header).unwrap(), on the groups c
parse_groups(c) ==
    Bind(collect_types(split_terminator(IF c.args = None THEN <<>> ELSE c.args[1])),
         LAMBDA arg_types :
            IF ~arg_types.ok THEN arg_types
            ELSE Bind(DType_from_str(c.ret),
                      LAMBDA return_type :
                         IF ~return_type.ok THEN Err(unwrap_err(return_type.err))
                         ELSE Ok([name |-> c.name,
                                  arg_types |-> arg_types.value,
                                  return_type |-> return_type.value])))

\* parse_header: Ok(Meta), or Err(payload of the panic that leaves it)
parse_header(h) ==
    Bind(RE_captures(h),
         LAMBDA caps : IF caps = None THEN Err(unwrap_none)
                       ELSE parse_groups(caps[1]))

(***************************************************************************)
(* Compilation driver.                                                     *)
(***************************************************************************)
\* mutant: the exit status is not looked at
ExitStatus_success_any(st) == TRUE

\* ExitStatus::success
ExitStatus_success(st) == st = 0

\* panic!("roc compile failed: {status}")
compile_failed(st) ==
    [ty |-> "String", kind |-> "roc compile failed", detail |-> <<st>>]

\* compile(meta, code): `st` is the exit status of the roc subprocess on the
\* generated files, `libOk` whether Library::new can load the output.
\* Gives the status seen, whether a library load was attempted, the Library
\* and the payload of the panic that leaves compile, if any.
\* The files written to the temporary directory are read by the subprocess
\* alone and are not part of the state.
compile(meta, st, libOk) ==
    IF ~ExitStatus_success(st)
    THEN [status |-> Some(st), libLoad |-> FALSE, dylib |-> None,
          panic |-> Some(compile_failed(st))]
    ELSE IF ~libOk
    THEN [status |-> Some(st), libLoad |-> TRUE, dylib |-> None,
          panic |-> Some(unwrap_err(<<"libloading::Error">>))]
    ELSE [status |-> Some(st), libLoad |-> TRUE,
          dylib |-> Some([name |-> meta.name]), panic |-> None]

\* Plugin::load on a file whose first line parse_header turned into meta
\* (Ok(Meta), or Err of the panic): the outcome of parsing, the exit status
\* seen, whether a library load was attempted, the Plugin, and the payload
\* of the panic that leaves load, if any
Plugin_load(meta, st, libOk) ==
    IF ~meta.ok
    THEN [parsed |-> meta, status |-> None, libLoad |-> FALSE,
          plugin |-> None, panic |-> Some(meta.err)]
    ELSE Bind(compile(meta.value, st, libOk),
              LAMBDA c :
                 [parsed |-> meta, status |-> c.status, libLoad |-> c.libLoad,
                  plugin |-> IF c.panic = None
                             THEN Some([meta |-> meta.value, dylib |-> c.dylib[1]])
                             ELSE None,
                  panic |-> c.panic])

(***************************************************************************)
(* Type-directed invoker.                                                  *)
(***************************************************************************)
\* generate_value(t), the value living at address addr
generate_value(t, addr) ==
    IF t = "Str"
    THEN [tag |-> "Str", s |-> <<"f","o","o">>, n |-> 0, addr |-> addr]
    ELSE [tag |-> "U64", s |-> <<>>, n |-> 42, addr |-> addr]

\* mutant: the address of the value, whatever its variant
as_void_ptr_addr(v) == v.addr

\* Value::as_void_ptr: the machine word handed to the callee
as_void_ptr(v) ==
    IF v.tag = "Str" THEN v.addr ELSE v.n

\* unimplemented!("more than 2 arguments"): a message without runtime
\* arguments, so the payload is the constant string
unimplemented_payload ==
    [ty |-> "&str", kind |-> "not implemented: more than 2 arguments",
     detail |-> <<>>]

\* the function pointer type the symbol is cast to, and the words passed
invoke0(meta, at) ==
    IF meta.return_type = "Str"
    THEN [params |-> <<"*mut RocStr">>, ret |-> "()",
          args |-> <<at.result>>, values |-> <<>>]
    ELSE [params |-> <<>>, ret |-> "u64", args |-> <<>>, values |-> <<>>]

invoke1(meta, t1, at) ==
    LET a1 == generate_value(t1, at.a1)
    IN  IF meta.return_type = "Str"
        THEN [params |-> <<"*mut RocStr", "*const c_void">>, ret |-> "()",
              args |-> <<at.result, as_void_ptr(a1)>>, values |-> <<a1>>]
        ELSE [params |-> <<"*const c_void">>, ret |-> "u64",
              args |-> <<as_void_ptr(a1)>>, values |-> <<a1>>]

invoke2(meta, t1, t2, at) ==
    LET a1 == generate_value(t1, at.a1)
        a2 == generate_value(t2, at.a2)
    IN  IF meta.return_type = "Str"
        THEN [params |-> <<"*mut RocStr", "*const c_void", "*const c_void">>,
              ret |-> "()",
              args |-> <<at.result, as_void_ptr(a1), as_void_ptr(a2)>>,
              values |-> <<a1, a2>>]
        ELSE [params |-> <<"*mut u64", "*const c_void", "*const c_void">>,
              ret |-> "()",
              args |-> <<at.result, as_void_ptr(a1), as_void_ptr(a2)>>,
              values |-> <<a1, a2>>]

\* println!(">>> {result}"), v a result value [tag, s, n]
result_line(v) == [stream |-> "stdout", text |-> ">>> ", arg |-> v]

\* The closure passed to catch_unwind_silent in Plugin::invoke.  `at` places
\* the locals, `symbolOk` says whether the entry symbol resolves and
\* `outcome` is what the foreign function does once called.
\* Gives the call made, the lines printed, the payload unwinding out and
\* whether the unwinding started under the call through the extern "C"
\* function pointer.
invoke_closure(meta, at, symbolOk, outcome) ==
    LET n == Len(meta.arg_types)
    IN  IF n > 2
        THEN [call |-> None, printed |-> <<>>, foreign |-> FALSE,
              unwind |-> Some(unimplemented_payload)]
        ELSE IF ~symbolOk
        THEN [call |-> None, printed |-> <<>>, foreign |-> FALSE,
              unwind |-> Some(unwrap_err(<<"libloading::Error">>))]
        ELSE Bind(IF n = 0 THEN invoke0(meta, at)
                  ELSE IF n = 1 THEN invoke1(meta, meta.arg_types[1], at)
                  ELSE invoke2(meta, meta.arg_types[1], meta.arg_types[2], at),
                  LAMBDA c :
                     IF outcome.kind = "return"
                     THEN [call |-> Some(c),
                           printed |-> <<result_line(outcome.value)>>,
                           foreign |-> FALSE, unwind |-> None]
                     ELSE [call |-> Some(c), printed |-> <<>>,
                           foreign |-> TRUE, unwind |-> Some(outcome.payload)])

\* A panic that unwinds out of a call through an extern "C" function pointer
\* is undefined behaviour: one build lands it in catch_unwind, another lets
\* it pass the guard.
ForeignUnwind == {"caught", "escapes"}

\* panic::catch_unwind: Some(Ok(())) or Some(Err(payload)) when it returns,
\* None when the unwinding passes through it
catch_unwind(unwind, foreign, ub) ==
    IF unwind = None THEN Some([ok |-> TRUE, payload |-> None])
    ELSE IF foreign /\ ub = "escapes" THEN None
    ELSE Some([ok |-> FALSE, payload |-> unwind])

\* panic::take_hook: hands out the hook in place and installs the default one
take_hook(h) == [taken |-> h, installed |-> "default"]

\* the two panic::set_hook calls of catch_unwind_silent
set_hook_silent == "silent"
set_hook_prev(prev) == prev

\* error.downcast::<String>(): Ok(message) for a String payload
downcast_String(payload) ==
    IF payload.ty = "String" THEN Ok(payload) ELSE Err(<<"Any { .. }">>)

\* eprintln!("plugin panicked: {}", *msg)
panicked_line(msg) == [stream |-> "stderr", text |-> "plugin panicked: ", arg |-> msg]

(***************************************************************************)
(* Inputs: plugin files, the compiler, the loader and the compiled code.   *)
(***************************************************************************)
RECURSIVE Join(_, _)
Join(toks, sep) ==
    IF toks = <<>> THEN <<>>
    ELSE IF Len(toks) = 1 THEN toks[1]
    ELSE toks[1] \o sep \o Join(Tail(toks), sep)

\* the header line `#[plugin] name : ret` or `#[plugin] name : T1, .. -> ret`
HeaderLine(name, toks, ret) ==
    Marker \o name \o Colon
           \o (IF toks = <<>> THEN <<>> ELSE Join(toks, Comma) \o Arrow) \o ret

SeqsUpTo(S, n) == UNION {[1..k -> S] : k \in 0..n}

Names == {<<"f">>, <<"g","2">>, <<"é">>}
Bogus == <<"B","o","g","u","s">>
TypeTokens == {DType_as_str(t) : t \in DType}

\* headers that follow the grammar, of every signature up to MaxArity
WellFormed ==
    {HeaderLine(nm, [i \in 1..Len(ts) |-> DType_as_str(ts[i])], DType_as_str(r)) :
        nm \in Names, ts \in SeqsUpTo(DType, MaxArity), r \in DType}

\* headers whose argument list is any concatenation of names and separators
Pieces == TypeTokens \cup {Bogus, Comma, <<" ">>, <<",">>}
ArgTexts == {Concat(ps) : ps \in SeqsUpTo(Pieces, MaxPieces) \ {<<>>}}
FreeForm ==
    {Marker \o <<"f">> \o Colon \o a \o Arrow \o r :
        a \in ArgTexts, r \in TypeTokens \cup {Bogus}}

\* headers that deviate in the marker, the name, the separators or the end
Deviant ==
    {m \o nm \o c \o a \o r \o t :
        m \in {Marker, <<>>, <<"#","[","p","l","u","g","i","n","]">>},
        nm \in {<<"f">>, <<>>, <<"f"," ","g">>},
        c \in {Colon, <<":">>, <<" ",":">>},
        a \in {<<>>, <<"S","t","r">> \o Arrow, <<"S","t","r","-",">">>},
        r \in {<<"U","6","4">>, Bogus, <<>>},
        t \in {<<>>, <<" ">>, <<" ","x">>}}

\* headers with names and type tokens outside ASCII
Unicode ==
    {HeaderLine(nm, toks, r) :
        nm \in {<<"é">>, <<"U+540D">>, <<"f">>},
        toks \in SeqsUpTo(TypeTokens \cup {<<"ß">>}, 2),
        r \in TypeTokens \cup {<<"ß">>}}

Headers == WellFormed \cup FreeForm \cup Deviant \cup Unicode

\* exit statuses of the roc subprocess
ExitCodes == {0, 1, 2}

\* where the locals a1, a2 and result of invokeN live
Placements ==
    {[a1 |-> 4096, a2 |-> 4128, result |-> 4160],
     [a1 |-> 8192, a2 |-> 8160, result |-> 8128]}

\* the panic raised under the foreign call when the plugin crashes
roc_panic ==
    [ty |-> "String", kind |-> "roc_panic", detail |-> <<"c","r","a","s","h">>]

\* what the compiled entry point does when called
ForeignOutcomes(ret) ==
    {[kind |-> "panic", value |-> [tag |-> ret, s |-> <<>>, n |-> 0],
      payload |-> roc_panic]}
    \cup
    {[kind |-> "return", value |-> v, payload |-> roc_panic] :
        v \in IF ret = "Str"
              THEN {[tag |-> "Str", s |-> <<"b","a","r">>, n |-> 0]}
              ELSE {[tag |-> "U64", s |-> <<>>, n |-> 7]}}

(***************************************************************************)
(* main.                                                                   *)
(***************************************************************************)
\* println!("loading plugin from {}", path)
loading_line == [stream |-> "stdout", text |-> "loading plugin from ", arg |-> <<>>]
\* println!("invoking plugin: {}", plugin.name())
invoking_line(name) == [stream |-> "stdout", text |-> "invoking plugin: ", arg |-> name]
\* println!()
blank_line == [stream |-> "stdout", text |-> "", arg |-> <<>>]

\* mutant: a failed load is skipped and the loop goes on
main_after_load_skip(panic) == IF panic = None THEN "loaded" ELSE "loop"

\* where main stands after Plugin::load: a panic leaving load is not caught
main_after_load(panic) == IF panic = None THEN "loaded" ELSE "aborted"

\* where main stands after the Err branch of Plugin::invoke:
\* downcast(..).unwrap() panics outside the guarded call
main_after_invoke(res) ==
    IF res.ok \/ downcast_String(res.payload[1]).ok THEN "invoked" ELSE "aborted"

Init ==
    /\ pc = "loop"
    /\ remaining \in 0..MaxPlugins
    /\ header = None
    /\ parsed = None
    /\ status = None
    /\ libLoad = FALSE
    /\ plugin = None
    /\ hook = "original"
    /\ prev_hook = None
    /\ call = None
    /\ result = None
    /\ out = <<>>
    /\ abort = None
    /\ recovered = 0
    /\ fault = None

\* main.rs 12-17: the next directory entry is announced and loaded
Load ==
    /\ pc = "loop"
    /\ remaining > 0
    /\ \E h \in Headers :
        \E meta \in {parse_header(h)}, st \in ExitCodes, libOk \in BOOLEAN :
        \E r \in {Plugin_load(meta, st, libOk)} :
            /\ header' = Some(h)
            /\ parsed' = Some(r.parsed)
            /\ status' = r.status
            /\ libLoad' = r.libLoad
            /\ plugin' = r.plugin
            /\ abort' = r.panic
            /\ pc' = main_after_load(r.panic)
    /\ remaining' = remaining - 1
    /\ out' = <<loading_line>>
    /\ UNCHANGED <<hook, prev_hook, call, result, recovered, fault>>

\* main.rs 12: read_dir is exhausted and main returns
DirExhausted ==
    /\ pc = "loop"
    /\ remaining = 0
    /\ pc' = "done"
    /\ UNCHANGED <<remaining, header, parsed, status, libLoad, plugin, hook,
                   prev_hook, call, result, out, abort, recovered, fault>>

\* main.rs 19-20, plugin.rs 86-87 and 283-284: invoke is announced and
\* catch_unwind_silent swaps the panic hook
InvokeEnter ==
    /\ pc = "loaded"
    /\ out' = Append(out, invoking_line(plugin[1].meta.name))
    /\ prev_hook' = Some(take_hook(hook).taken)
    /\ hook' = set_hook_silent
    /\ pc' = "guarded"
    /\ UNCHANGED <<remaining, header, parsed, status, libLoad, plugin, call,
                   result, abort, recovered, fault>>

\* plugin.rs 285 with 87-92 and 104-170: the closure runs under
\* catch_unwind.  When catch_unwind returns, catch_unwind_silent goes on to
\* line 286.  When the panic passes through it, the frames of
\* catch_unwind_silent and invoke are unwound, line 286 is never reached and
\* the panic ends main with the silent hook still installed.
RunClosure ==
    /\ pc = "guarded"
    /\ \E at \in Placements, symbolOk \in BOOLEAN,
          outcome \in ForeignOutcomes(plugin[1].meta.return_type),
          ub \in ForeignUnwind :
        \E c \in {invoke_closure(plugin[1].meta, at, symbolOk, outcome)} :
        \E r \in {catch_unwind(c.unwind, c.foreign, ub)} :
            /\ call' = c.call
            /\ out' = out \o c.printed
            /\ fault' = c.unwind
            /\ result' = r
            /\ IF r # None
               THEN /\ pc' = "caught"
                    /\ UNCHANGED <<prev_hook, abort>>
               ELSE /\ pc' = "aborted"
                    /\ prev_hook' = None
                    /\ abort' = c.unwind
    /\ UNCHANGED <<remaining, header, parsed, status, libLoad, plugin, hook,
                   recovered>>

\* plugin.rs 286-287 and 94-97, main.rs 22: the hook is put back, a caught
\* panic is reported, and main prints the separator
InvokeExit ==
    /\ pc = "caught"
    /\ hook' = set_hook_prev(prev_hook[1])
    /\ prev_hook' = None
    /\ pc' = main_after_invoke(result[1])
    /\ IF result[1].ok
       THEN /\ out' = Append(out, blank_line)
            /\ UNCHANGED <<abort, recovered>>
       ELSE \E msg \in {downcast_String(result[1].payload[1])} :
                IF msg.ok
                THEN /\ out' = out \o <<panicked_line(msg.value), blank_line>>
                     /\ recovered' = recovered + 1
                     /\ UNCHANGED abort
                ELSE /\ abort' = Some(unwrap_err(msg.err))
                     /\ UNCHANGED <<out, recovered>>
    /\ UNCHANGED <<remaining, header, parsed, status, libLoad, plugin, call,
                   result, fault>>

\* main.rs 23: the loop body ends, the Plugin and its Library are dropped
EndIteration ==
    /\ pc = "invoked"
    /\ pc' = "loop"
    /\ header' = None
    /\ parsed' = None
    /\ status' = None
    /\ libLoad' = FALSE
    /\ plugin' = None
    /\ call' = None
    /\ result' = None
    /\ fault' = None
    /\ out' = <<>>
    /\ UNCHANGED <<remaining, hook, prev_hook, abort, recovered>>

Next ==
    \/ Load
    \/ DirExhausted
    \/ InvokeEnter
    \/ RunClosure
    \/ InvokeExit
    \/ EndIteration

Spec == Init /\ [][Next]_vars

(***************************************************************************)
(* Properties.                                                             *)
(***************************************************************************)
IsWord(s) == s # <<>> /\ \A i \in 1..Len(s) : s[i] \in WordChars

\* a list of names separated by ", "
RECURSIVE IsNameList(_)
IsNameList(s) ==
    \E k \in 1..Len(s) :
        /\ IsWord(SubSeq(s, 1, k))
        /\ \/ k = Len(s)
           \/ /\ StartsWithAt(s, k + 1, Comma)
              /\ IsNameList(SubSeq(s, k + Len(Comma) + 1, Len(s)))

\* the header grammar as stated: marker, identifier, " : ", optionally a
\* list of names separated by ", " and followed by " -> ", and one name
HeaderGrammar(h) ==
    /\ StartsWithAt(h, 1, Marker)
    /\ \E n \in 1..Len(h) :
        /\ StartsWithAt(h, Len(Marker) + n + 1, Colon)
        /\ IsWord(SubSeq(h, Len(Marker) + 1, Len(Marker) + n))
        /\ \E rest \in {SubSeq(h, Len(Marker) + n + Len(Colon) + 1, Len(h))} :
            \/ IsWord(rest)
            \/ \E k \in 1..Len(rest) :
                /\ StartsWithAt(rest, k + 1, Arrow)
                /\ IsNameList(SubSeq(rest, 1, k))
                /\ IsWord(SubSeq(rest, k + Len(Arrow) + 1, Len(rest)))

\* the names written after the first ':' of h that are not type names
BadTokens(h) ==
    {w \in {SubSeq(h, i, j) : i \in 1..Len(h), j \in 1..Len(h)} :
        /\ IsWord(w)
        /\ w \notin TypeTokens
        /\ \E i \in 1..Len(h) :
            /\ StartsWithAt(h, i, w)
            /\ \E c \in 1..(i - 1) : h[c] = ":"
            /\ h[i - 1] \notin WordChars
            /\ (i + Len(w) > Len(h) \/ h[i + Len(w)] \notin WordChars)}

StderrLines == SelectSeq(out, LAMBDA l : l.stream = "stderr")
ResultLines == SelectSeq(out, LAMBDA l : l.text = ">>> ")

\* invoke has returned or unwound into main
InvokeLeft == result # None /\ pc # "caught"

\* the foreign call has panicked and the guarded call is over
ForeignFaultOver ==
    /\ fault # None
    /\ fault[1].kind = "roc_panic"
    /\ pc # "caught"

\* C1: when the foreign call panics, invoke reports one "plugin panicked"
\* line carrying the message and returns to main, which keeps running; and
\* an invoke whose call returns prints the result, whatever was recovered
\* before it.  It fails when the panic passes the guard and ends the host.
C1_FailureIsolation ==
    /\ ForeignFaultOver
        => /\ pc = "invoked"
           /\ abort = None
           /\ call # None
           /\ Len(StderrLines) = 1
           /\ StderrLines[1].text = "plugin panicked: "
           /\ StderrLines[1].arg.kind = "roc_panic"
           /\ StderrLines[1].arg.detail = roc_panic.detail
           /\ ResultLines = <<>>
    /\ (InvokeLeft /\ result[1].ok)
        => /\ pc = "invoked"
           /\ call # None
           /\ Len(ResultLines) = 1
           /\ StderrLines = <<>>

\* C2: the call has as many argument slots as declared arguments; a Str
\* return comes back through an out-parameter, a U64 return directly.
C2_CallShape ==
    call # None =>
        /\ Len(SelectSeq(call[1].params, LAMBDA p : p = "*const c_void"))
                = Len(plugin[1].meta.arg_types)
        /\ plugin[1].meta.return_type = "Str" =>
                /\ call[1].ret = "()"
                /\ call[1].params[1] = "*mut RocStr"
                /\ Len(call[1].params) = Len(plugin[1].meta.arg_types) + 1
        /\ plugin[1].meta.return_type = "U64" =>
                /\ call[1].ret = "u64"
                /\ Len(call[1].params) = Len(plugin[1].meta.arg_types)

\* C3: a header with three or more arguments parses into a signature that
\* keeps them all; invoking it makes no call, reports "not implemented" as
\* a plugin failure, and the host keeps running.
C3_ArityCap ==
    \A ts \in SeqsUpTo(DType, MaxArity) \ SeqsUpTo(DType, 2) :
        (header = Some(HeaderLine(<<"f">>, [i \in 1..Len(ts) |-> DType_as_str(ts[i])],
                                  DType_as_str("U64"))))
        => /\ parsed[1].ok
           /\ parsed[1].value.arg_types = ts
           /\ call = None
           /\ InvokeLeft =>
                /\ pc = "invoked"
                /\ abort = None
                /\ Len(StderrLines) = 1
                /\ StderrLines[1].text = "plugin panicked: "
                /\ StderrLines[1].arg.kind = "not implemented: more than 2 arguments"

\* C4: parse_header accepts a line only if the whole line follows the
\* header grammar.
C4_StrictGrammar ==
    (parsed # None /\ parsed[1].ok) => HeaderGrammar(header[1])

\* C5: a nonzero exit status of the compiler ends load with an error that
\* carries the status, with no library load and no invoke; a library load
\* is attempted only after exit status 0.
C5_CompileFailure ==
    /\ (status # None /\ status[1] # 0)
        => /\ pc = "aborted"
           /\ abort # None
           /\ abort[1].kind = "roc compile failed"
           /\ abort[1].detail = <<status[1]>>
           /\ ~libLoad
           /\ plugin = None
           /\ call = None
           /\ result = None
    /\ libLoad => status = Some(0)

C5_Witness ==
    /\ status = Some(2)
    /\ pc = "aborted"
    /\ ~libLoad

\* C6: the header line of every signature of arity 0, 1 or 2 parses back
\* to the same name, argument types in order and return type.
C6_RoundTrip ==
    \A nm \in Names, ts \in SeqsUpTo(DType, 2), r \in DType :
        (header = Some(HeaderLine(nm, [i \in 1..Len(ts) |-> DType_as_str(ts[i])],
                                  DType_as_str(r))))
        => /\ parsed[1].ok
           /\ parsed[1].value.name = nm
           /\ parsed[1].value.arg_types = ts
           /\ parsed[1].value.return_type = r

C6_Witness ==
    /\ header = Some(HeaderLine(<<"g","2">>, <<<<"U","6","4">>, <<"S","t","r">>>>,
                                <<"S","t","r">>))
    /\ parsed[1].ok
    /\ parsed[1].value.arg_types = <<"U64", "Str">>

\* C7: a header that follows the grammar but names a type other than Str
\* or U64 fails to parse, with an error that carries an offending name,
\* and yields no signature.
C7_UnknownType ==
    (parsed # None /\ HeaderGrammar(header[1]) /\ BadTokens(header[1]) # {})
        => /\ ~parsed[1].ok
           /\ parsed[1].err.kind = "Result::unwrap on Err"
           /\ parsed[1].err.detail \in BadTokens(header[1])
           /\ plugin = None
           /\ abort # None
           /\ abort[1].kind = "Result::unwrap on Err"
           /\ abort[1].detail = parsed[1].err.detail

C7_Witness ==
    /\ header = Some(HeaderLine(<<"f">>, <<Bogus>>, <<"U","6","4">>))
    /\ abort # None
    /\ abort[1].kind = "Result::unwrap on Err"
    /\ abort[1].detail = Bogus

\* a header-parse or compile failure has happened in Plugin::load
FailedLoad ==
    /\ parsed # None
    /\ ~parsed[1].ok \/ (status # None /\ status[1] # 0)

\* C8: once load has failed on a parse or compile error the run is over:
\* that plugin is not invoked and nothing further is loaded or invoked.
C8_FailFast ==
    /\ [](FailedLoad => (pc = "aborted" /\ plugin = None /\ call = None /\ result = None))
    /\ [][FailedLoad => UNCHANGED vars]_vars

C8_Witness ==
    /\ FailedLoad
    /\ pc = "aborted"
    /\ remaining > 0

\* C9: the silent hook is in place exactly while an invoke's guarded call
\* is in progress, and the hook installed before it is in place otherwise.
\* It fails when a panic passes the guard: the silent hook stays installed.
C9_HookScoped ==
    /\ pc \in {"guarded", "caught"} => (hook = "silent" /\ prev_hook = Some("original"))
    /\ pc \notin {"guarded", "caught"} => (hook = "original" /\ prev_hook = None)

\* the placeholder synthesized for a declared argument type
IsPlaceholder(v, t) ==
    /\ v.tag = t
    /\ t = "Str" => v.s = <<"f","o","o">>
    /\ t = "U64" => v.n = 42

\* the word passed for declared argument i of the call c
ArgSlot(c, i) == c.args[Len(c.args) - Len(c.values) + i]

\* C10 as stated: every argument slot is the address of the synthesized
\* placeholder, for Str and for U64 arguments.
C10_SlotsAreAddresses ==
    call # None =>
        /\ Len(call[1].values) = Len(plugin[1].meta.arg_types)
        /\ \A i \in 1..Len(call[1].values) :
            /\ IsPlaceholder(call[1].values[i], plugin[1].meta.arg_types[i])
            /\ ArgSlot(call[1], i) = call[1].values[i].addr

\* C10 amended: the placeholders are "foo" and 42, in declaration order; the
\* slot of a Str argument is the address of the placeholder, the slot of a
\* U64 argument is the number 42 itself.
C10_Marshaling ==
    call # None =>
        /\ Len(call[1].values) = Len(plugin[1].meta.arg_types)
        /\ \A i \in 1..Len(call[1].values) :
            /\ IsPlaceholder(call[1].values[i], plugin[1].meta.arg_types[i])
            /\ plugin[1].meta.arg_types[i] = "Str" =>
                    ArgSlot(call[1], i) = call[1].values[i].addr
            /\ plugin[1].meta.arg_types[i] = "U64" =>
                    ArgSlot(call[1], i) = 42

C10_Witness ==
    /\ call # None
    /\ plugin[1].meta.arg_types = <<"U64", "Str">>
    /\ call[1].args[Len(call[1].args)] = call[1].values[2].addr

====
